---- MODULE Spec2Model ----
(***************************************************************************)
(* A model of github.com/ardnew/wh: the depth-bounded, symlink-aware      *)
(* walker (wh.Match) and the pattern matcher with its regexp cache        *)
(* (expr.Expr.Match, expr.Cache.Get).                                     *)
(*                                                                         *)
(* A file name is a sequence of one-character strings, a path is a        *)
(* sequence of names (an absolute path starts with the name Slash), and   *)
(* the file system is a fixed finite tree with symlinks.                  *)
(***************************************************************************)
EXTENDS Integers, Sequences, FiniteSets, TLC

\* --------------------------------------------------------------- bounds
\* MaxDepth is drawn from 0..MaxDepthBound, MaxFollow from -1..MaxFollowBound,
\* and a call is given at most MaxRoots roots.
MaxDepthBound == 3
MaxFollowBound == 2
MaxRoots == 2
\* A chain records at most MaxChain links.
MaxChain == 4

\* ---------------------------------------------------------------- names
Slash == <<"/">>
Dot == <<".">>
DotDot == <<".", ".">>

n_a_txt == <<"a", ".", "t", "x", "t">>
n_b_log == <<"b", ".", "l", "o", "g">>
n_c_txt == <<"c", ".", "t", "x", "t">>
n_d_txt == <<"d", ".", "t", "x", "t">>
n_e_txt == <<"e", ".", "t", "x", "t">>
n_f_txt == <<"f", ".", "t", "x", "t">>
n_g_txt == <<"g", ".", "t", "x", "t">>
n_x_txt == <<"x", ".", "t", "x", "t">>
n_z_txt == <<"z", ".", "t", "x", "t">>
n_link == <<"l", "i", "n", "k">>
n_sub == <<"s", "u", "b">>
n_deep == <<"d", "e", "e", "p">>
n_hop == <<"h", "o", "p">>
n_more == <<"m", "o", "r", "e">>
n_dead == <<"d", "e", "a", "d">>
n_priv == <<"p", "r", "i", "v">>
n_lnk == <<"l", "n", "k">>
n_r == <<"r">>
n_t == <<"t">>
n_v == <<"v">>
n_q == <<"q">>
n_u == <<"u">>
n_e == <<"e">>
n_nx == <<"n", "x">>
n_nowhere == <<"n", "o">>
n_k == <<"k">>
n_m == <<"m">>
n_c == <<"c">>
n_w == <<"w">>
n_ABC == <<"A", "B", "C">>
n_abc == <<"a", "b", "c">>
n_in == <<"i", "n">>
n_o_txt == <<"o", ".", "t", "x", "t">>
n_rel_txt == <<"r", "e", "l", ".", "t", "x", "t">>
n_up_txt == <<"u", "p", ".", "t", "x", "t">>
n_ping == <<"p", "i", "n", "g">>
n_pong == <<"p", "o", "n", "g">>
n_h_txt == <<"h", ".", "t", "x", "t">>
n_up == <<"u", "p">>

\* ---------------------------------------------------------------- paths
\* path.Clean on a sequence of components: "." and repeated separators are
\* dropped, ".." removes the component before it, the empty path is ".".
RECURSIVE CleanAcc(_, _, _)
CleanAcc(p, i, acc) ==
    IF i > Len(p) THEN (IF acc = <<>> THEN <<Dot>> ELSE acc)
    ELSE LET comp == p[i] IN
         IF comp = Dot THEN CleanAcc(p, i + 1, acc)
         ELSE IF comp = Slash
              THEN CleanAcc(p, i + 1, IF i = 1 THEN <<Slash>> ELSE acc)
         ELSE IF comp = DotDot
              THEN IF acc = <<>> \/ acc[Len(acc)] = DotDot
                   THEN CleanAcc(p, i + 1, Append(acc, DotDot))
                   ELSE IF acc = <<Slash>>
                        THEN CleanAcc(p, i + 1, acc)
                        ELSE CleanAcc(p, i + 1, SubSeq(acc, 1, Len(acc) - 1))
         ELSE CleanAcc(p, i + 1, Append(acc, comp))

\* (q is p, evaluated once.)
Clean(p) == CHOOSE r \in {CleanAcc(q, 1, <<>>) : q \in {p}} : TRUE

\* path.Join(a, b): the elements joined with a separator, then cleaned.
Join(a, b) == Clean(a \o b)

IsAbs(p) == Len(p) > 0 /\ p[1] = Slash

\* path.Dir and path.Base.
Dir(p) == Clean(SubSeq(p, 1, Len(p) - 1))

Base(p) == IF Len(p) = 0 THEN Dot ELSE p[Len(p)]

IsPrefix(a, b) == Len(a) <= Len(b) /\ SubSeq(b, 1, Len(a)) = a

\* strings.TrimPrefix(p, root)
TrimPrefix(p, root) == IF IsPrefix(root, p) THEN SubSeq(p, Len(root) + 1, Len(p)) ELSE p

\* len(strings.FieldsFunc(p, separator)): the number of components of p.
NumFields(p) == Cardinality({i \in 1..Len(p) : p[i] # Slash /\ p[i] # <<>>})

\* ---------------------------------------------------------- file system
\* The directory the process runs in: relative paths are opened against it.
Cwd == <<Slash, n_r>>

Abs(p) == IF IsAbs(p) THEN Clean(p) ELSE Join(Cwd, p)

DirNode(ents, readable) ==
    [kind |-> "dir", ents |-> ents, readable |-> readable, target |-> <<>>]

FileNode == [kind |-> "file", ents |-> <<>>, readable |-> TRUE, target |-> <<>>]

LinkNode(target) ==
    [kind |-> "symlink", ents |-> <<>>, readable |-> TRUE, target |-> target]

\* The file system. A directory lists its entries in the order os.ReadDir
\* returns them (sorted by file name). No root and no link target names an
\* entry through a symlinked directory, so a path is looked up as written.
\*   /k  holds the files ABC and abc;
\*   /m  holds lnk -> /m/in/o.txt, up.txt -> in/o.txt and the directory in,
\*       with o.txt and rel.txt -> o.txt (the last two links relative);
\*   /c  holds ping -> pong and pong -> ping, a cycle of links;
\*   /w  holds h.txt and up -> /w, a link to its own directory.
FS ==
    (<<Slash>> :> DirNode(<<n_c, n_e, n_k, n_m, n_q, n_r, n_t, n_u, n_v, n_w>>, TRUE))
    @@ (<<Slash, n_k>> :> DirNode(<<n_ABC, n_abc>>, TRUE))
    @@ (<<Slash, n_k, n_ABC>> :> FileNode)
    @@ (<<Slash, n_k, n_abc>> :> FileNode)
    @@ (<<Slash, n_m>> :> DirNode(<<n_in, n_lnk, n_up_txt>>, TRUE))
    @@ (<<Slash, n_m, n_lnk>> :> LinkNode(<<Slash, n_m, n_in, n_o_txt>>))
    @@ (<<Slash, n_m, n_in>> :> DirNode(<<n_o_txt, n_rel_txt>>, TRUE))
    @@ (<<Slash, n_m, n_in, n_o_txt>> :> FileNode)
    @@ (<<Slash, n_m, n_in, n_rel_txt>> :> LinkNode(<<n_o_txt>>))
    @@ (<<Slash, n_m, n_up_txt>> :> LinkNode(<<n_in, n_o_txt>>))
    @@ (<<Slash, n_c>> :> DirNode(<<n_ping, n_pong>>, TRUE))
    @@ (<<Slash, n_c, n_ping>> :> LinkNode(<<n_pong>>))
    @@ (<<Slash, n_c, n_pong>> :> LinkNode(<<n_ping>>))
    @@ (<<Slash, n_w>> :> DirNode(<<n_h_txt, n_up>>, TRUE))
    @@ (<<Slash, n_w, n_h_txt>> :> FileNode)
    @@ (<<Slash, n_w, n_up>> :> LinkNode(<<Slash, n_w>>))
    @@ (<<Slash, n_r>> :> DirNode(<<n_a_txt, n_b_log, n_link, n_sub, n_z_txt>>, TRUE))
    @@ (<<Slash, n_r, n_a_txt>> :> FileNode)
    @@ (<<Slash, n_r, n_b_log>> :> FileNode)
    @@ (<<Slash, n_r, n_link>> :> LinkNode(<<Slash, n_t>>))
    @@ (<<Slash, n_r, n_sub>> :> DirNode(<<n_c_txt, n_deep, n_hop>>, TRUE))
    @@ (<<Slash, n_r, n_sub, n_c_txt>> :> FileNode)
    @@ (<<Slash, n_r, n_sub, n_deep>> :> DirNode(<<n_e_txt>>, TRUE))
    @@ (<<Slash, n_r, n_sub, n_deep, n_e_txt>> :> FileNode)
    @@ (<<Slash, n_r, n_sub, n_hop>> :> LinkNode(<<Slash, n_r, n_link>>))
    @@ (<<Slash, n_r, n_z_txt>> :> LinkNode(<<n_b_log>>))
    @@ (<<Slash, n_t>> :> DirNode(<<n_d_txt, n_more>>, TRUE))
    @@ (<<Slash, n_t, n_d_txt>> :> FileNode)
    @@ (<<Slash, n_t, n_more>> :> LinkNode(<<Slash, n_v>>))
    @@ (<<Slash, n_v>> :> DirNode(<<n_f_txt>>, TRUE))
    @@ (<<Slash, n_v, n_f_txt>> :> FileNode)
    @@ (<<Slash, n_q>> :> DirNode(<<n_dead, n_g_txt, n_priv>>, TRUE))
    @@ (<<Slash, n_q, n_dead>> :> LinkNode(<<Slash, n_nowhere>>))
    @@ (<<Slash, n_q, n_g_txt>> :> FileNode)
    @@ (<<Slash, n_q, n_priv>> :> DirNode(<<n_x_txt>>, FALSE))
    @@ (<<Slash, n_q, n_priv, n_x_txt>> :> FileNode)
    @@ (<<Slash, n_u>> :> DirNode(<<n_x_txt>>, FALSE))
    @@ (<<Slash, n_u, n_x_txt>> :> FileNode)
    @@ (<<Slash, n_e>> :> DirNode(<<n_lnk>>, TRUE))
    @@ (<<Slash, n_e, n_lnk>> :> LinkNode(<<Slash, n_t>>))

Exists(p) == Abs(p) \in DOMAIN FS

\* os.Lstat(p): the entry itself, a symlink not followed.
Lstat(p) == FS[Abs(p)]

\* os.ReadDir(p): the entries of a readable directory.
CanReadDir(p) == Exists(p) /\ Lstat(p).kind = "dir" /\ Lstat(p).readable

\* -------------------------------------------------------------- strings
UpperChars == <<"A", "B", "C", "D", "E", "F", "G", "H", "I", "J", "K", "L", "M",
                "N", "O", "P", "Q", "R", "S", "T", "U", "V", "W", "X", "Y", "Z">>

LowerChars == <<"a", "b", "c", "d", "e", "f", "g", "h", "i", "j", "k", "l", "m",
                "n", "o", "p", "q", "r", "s", "t", "u", "v", "w", "x", "y", "z">>

\* The lower-case letter of each upper-case letter.
LowerOf ==
    [u \in {UpperChars[i] : i \in 1..Len(UpperChars)} |->
        LowerChars[CHOOSE i \in 1..Len(UpperChars) : UpperChars[i] = u]]

LowerChar(ch) == IF ch \in DOMAIN LowerOf THEN LowerOf[ch] ELSE ch

\* strings.ToLower
ToLower(s) == [i \in 1..Len(s) |-> LowerChar(s[i])]

\* ------------------------------------------------------ pattern matcher
Nil == "nil"
ErrBadPattern == "syntax error in pattern"
ErrMissingBracket == "error parsing regexp: missing closing ]"
ErrInvalidExpr == "invalid Expr"
ErrNotExist == "file does not exist"

\* The index of the "]" closing the class opened at p[i], 0 when there is
\* none. A class holds at least one member (path.Match and regexp both
\* reject "[]"); members are literal characters.
ClassEnd(p, i) ==
    LET ends == {j \in (i + 2)..Len(p) : p[j] = "]"}
    IN IF ends = {} THEN 0 ELSE CHOOSE j \in ends : \A k \in ends : j <= k

\* Whether the pattern has a class that is never closed.
RECURSIVE Malformed(_, _)
Malformed(p, i) ==
    IF i > Len(p) THEN FALSE
    ELSE IF p[i] = "["
         THEN ClassEnd(p, i) = 0 \/ Malformed(p, ClassEnd(p, i) + 1)
         ELSE Malformed(p, i + 1)

\* path.Match(p, s) for a well-formed p, from p[i] and s[j] on: "*" is any
\* run of non-separator characters, "?" one of them, "[...]" a class.
RECURSIVE GlobAt(_, _, _, _)
GlobAt(p, i, s, j) ==
    IF i > Len(p) THEN j > Len(s)
    ELSE IF p[i] = "*"
         THEN \E k \in j..(Len(s) + 1) :
                  /\ \A m \in j..(k - 1) : s[m] # "/"
                  /\ GlobAt(p, i + 1, s, k)
    ELSE IF j > Len(s) THEN FALSE
    ELSE IF p[i] = "?" THEN s[j] # "/" /\ GlobAt(p, i + 1, s, j + 1)
    ELSE IF p[i] = "["
         THEN /\ s[j] \in {p[m] : m \in (i + 1)..(ClassEnd(p, i) - 1)}
              /\ GlobAt(p, ClassEnd(p, i) + 1, s, j + 1)
    ELSE s[j] = p[i] /\ GlobAt(p, i + 1, s, j + 1)

\* path.Match: (matched, err)
PathMatch(p, s) ==
    IF Malformed(p, 1) THEN [matched |-> FALSE, err |-> ErrBadPattern]
    ELSE [matched |-> GlobAt(p, 1, s, 1), err |-> Nil]

\* The inline flag MatchRegexp prefixes to the pattern.
FoldFlag == <<"(", "?", "i", ")">>

HasFoldFlag(p) == IsPrefix(FoldFlag, p)

ReBody(p) == IF HasFoldFlag(p) THEN SubSeq(p, Len(FoldFlag) + 1, Len(p)) ELSE p

\* regexp.Compile(p): a compiled form that remembers its source, or an error.
RegexpCompile(p) ==
    IF Malformed(ReBody(p), 1) THEN [r |-> <<>>, err |-> ErrMissingBracket]
    ELSE [r |-> <<p>>, err |-> Nil]

\* The body b matched at s[j], from b[i] on: "." is any character, "[...]"
\* a class, anything else a literal; fold compares case-insensitively.
RECURSIVE ReAt(_, _, _, _, _)
ReAt(b, i, s, j, fold) ==
    IF i > Len(b) THEN TRUE
    ELSE IF j > Len(s) THEN FALSE
    ELSE LET ch == IF fold THEN LowerChar(s[j]) ELSE s[j]
             eq(x) == IF fold THEN LowerChar(x) = ch ELSE x = ch
         IN IF b[i] = "." THEN ReAt(b, i + 1, s, j + 1, fold)
            ELSE IF b[i] = "["
                 THEN /\ \E m \in (i + 1)..(ClassEnd(b, i) - 1) : eq(b[m])
                      /\ ReAt(b, ClassEnd(b, i) + 1, s, j + 1, fold)
            ELSE eq(b[i]) /\ ReAt(b, i + 1, s, j + 1, fold)

\* (*regexp.Regexp).MatchString: a match anywhere in s.
MatchString(r, s) ==
    LET p == r[1]
    IN \E j \in 1..(Len(s) + 1) : ReAt(ReBody(p), 1, s, j, HasFoldFlag(p))

\* (*Cache).Get run without interleaving: the compiled pattern, the error,
\* the cache afterwards and the number of compilations made.
CacheGet(cache, pattern) ==
    IF pattern \in DOMAIN cache
    THEN [r |-> cache[pattern], err |-> Nil, cache |-> cache, compiled |-> 0]
    ELSE LET c == RegexpCompile(pattern)
         IN IF c.err # Nil
            THEN [r |-> <<>>, err |-> c.err, cache |-> cache, compiled |-> 1]
            ELSE [r |-> c.r, err |-> Nil,
                  cache |-> (pattern :> c.r) @@ cache, compiled |-> 1]

\* (Expr).Match: (matched, err), with the cache afterwards.
ExprMatch(e, pattern, s, cache) ==
    CASE e = "Fixed" ->
           [matched |-> (pattern = s), err |-> Nil, cache |-> cache, compiled |-> 0]
      [] e = "Glob" ->
           LET m == PathMatch(pattern, s)
           IN [matched |-> m.matched, err |-> m.err, cache |-> cache, compiled |-> 0]
      [] e = "Regexp" ->
           LET g == CacheGet(cache, pattern)
           IN [matched |-> (g.err = Nil /\ MatchString(g.r, s)), err |-> g.err,
               cache |-> g.cache, compiled |-> g.compiled]
      [] OTHER ->
           [matched |-> FALSE, err |-> ErrInvalidExpr, cache |-> cache, compiled |-> 0]

\* ---------------------------------------------------- chains and links
\* NewLink
NewLink(root, name, ent) == [root |-> root, name |-> name, ent |-> ent]

\* (*Link).Path
LinkPath(l) == Join(l.root, l.name)

\* (*Link).IsSymlink
IsSymlink(l) == l.ent = "symlink"

\* (*Link).Deref: the link the receiver points to, or an error, and dest,
\* the path that was looked up. A relative target is joined onto the
\* receiver's root.
Deref(l) ==
    LET p == LinkPath(l)
    IN IF ~Exists(p) \/ Lstat(p).kind # "symlink"
       THEN [d |-> NewLink(<<>>, <<>>, ""), err |-> "readlink: invalid argument",
             dest |-> <<>>]
       ELSE LET t == Lstat(p).target
                dest == IF ~IsAbs(t) THEN Join(l.root, t) ELSE t
            IN IF ~Exists(dest)
               THEN [d |-> NewLink(<<>>, <<>>, ""), err |-> ErrNotExist, dest |-> dest]
               ELSE [d |-> NewLink(Dir(dest), <<Base(dest)>>, Lstat(dest).kind),
                     err |-> Nil, dest |-> dest]

\* (*Chain).Add of one link. The chain of a cycle of links grows for ever:
\* once it holds MaxChain links the newest takes the place of the last. A
\* resolution that ends takes at most two steps in this file system, so
\* every chain that is reported is recorded whole.
ChainAdd(chain, d) ==
    IF Len(chain) < MaxChain THEN Append(chain, d)
    ELSE [chain EXCEPT ![Len(chain)] = d]

\* (*Chain).String: a chain of one link is its path; a longer chain is one
\* line per link, indented by its index, with a branch mark before the path.
ChainString(chain) ==
    IF Len(chain) = 0 THEN <<>>
    ELSE IF Len(chain) = 1
         THEN <<[indent |-> 0, branch |-> "", path |-> LinkPath(chain[1])]>>
    ELSE [i \in 1..Len(chain) |->
            [indent |-> i - 1,
             branch |-> IF i = 1 THEN "first"
                        ELSE IF i = Len(chain) THEN "last" ELSE "middle",
             path |-> LinkPath(chain[i])]]

\* --------------------------------------------------------------- state
VARIABLES
    input,     \* the call: the wrapper called, Option, pattern and roots
    pattern,   \* the pattern the wrapper hands to Match
    stack,     \* the active Match invocations, the nested ones last
    ret,       \* what the outermost Match returned
    pc,        \* "idle", "running" or "done"
    visits,    \* every entry the walk callback was called for without error,
               \* with the depth computed for it and the Option it was run with
    walked,    \* every root fs.WalkDir was called on
    failed,    \* the pattern matcher has returned an error
    derefs,    \* every (*Link).Deref made: the link's path and the path looked up
    re,        \* matchCache.re
    compiles,  \* the number of regexp.Compile calls made
    lock,      \* matchCache.RWMutex: the goroutines holding it to read, to write
    gor,       \* the goroutines that call (Expr).Match with the Regexp strategy
    returned   \* the patterns a (*Cache).Get has returned for

vars == <<input, pattern, stack, ret, pc, visits, walked, failed, derefs, re,
          compiles, lock, gor, returned>>

\* The state of the walker, and the state only concurrent callers of the
\* cache use.
wvars == <<input, pattern, stack, ret, pc, visits, walked, failed, derefs>>

cvars == <<lock, gor, returned>>

\* The goroutines calling the cache concurrently, and the calls each makes.
NumGoroutines == 2
MaxGets == 2

Goroutines == 1..NumGoroutines

IdleGoroutine ==
    [pc |-> "idle", pattern |-> <<>>, r |-> <<>>, ok |-> FALSE, err |-> Nil,
     gets |-> 0, late |-> FALSE, compiled |-> FALSE]

FreeLock == [readers |-> {}, writer |-> 0]

\* The patterns the model calls Match with.
p_a_txt == n_a_txt
p_star_txt == <<"*", ".", "t", "x", "t">>
p_txt == <<"t", "x", "t">>
p_bad == <<"[">>

Calls ==
    { [fn |-> "Fixed", pattern |-> p_a_txt],
      [fn |-> "Glob", pattern |-> p_star_txt],
      [fn |-> "Glob", pattern |-> p_bad],
      [fn |-> "Regexp", pattern |-> p_txt],
      [fn |-> "Regexp", pattern |-> p_bad] }

\* The roots a call may name: /r, /q, /e, the unreadable /u and the
\* nonexistent /nx.
RootChoices ==
    { <<Slash, n_r>>, <<Slash, n_q>>, <<Slash, n_e>>, <<Slash, n_u>>, <<Slash, n_nx>> }

RootLists == UNION { [1..n -> RootChoices] : n \in 0..MaxRoots }

\* Option as a caller sets it: the traversal counters are zero. MaxFollow is
\* read only once a symlink is followed, so it is varied only with
\* FollowSymlinks set.
Options ==
    { o \in [FollowSymlinks : BOOLEAN, MaxFollow : (-1)..MaxFollowBound,
             MaxDepth : 0..MaxDepthBound, Expr : {"Fixed"}, IgnoreCase : {FALSE},
             WorkingDir : {Cwd}, fromDepth : {0}, fromFollow : {0}] :
        o.FollowSymlinks \/ o.MaxFollow = 0 }

NoResult == [found |-> <<>>, err |-> <<>>]

Init ==
    /\ input \in [call : Calls, option : Options, sub : RootLists]
    /\ pattern = <<>>
    /\ stack = <<>>
    /\ ret = NoResult
    /\ pc = "idle"
    /\ visits = <<>>
    /\ walked = <<>>
    /\ failed = FALSE
    /\ derefs = {}
    /\ re = <<>>
    /\ compiles = 0
    /\ lock = FreeLock
    /\ gor = [g \in Goroutines |-> IdleGoroutine]
    /\ returned = {}

\* ------------------------------------------------------------- frames
\* The locals of one Match invocation: its Option, roots, the index of the
\* root being walked, found, serr, and the state of the walk of that root
\* (the entries fs.WalkDir has still to visit and the callback's locals).
NewFrame(opt, sub) ==
    [opt |-> opt, sub |-> sub, ri |-> 1, found |-> <<>>, serr |-> <<>>,
     walking |-> FALSE, root |-> <<>>, todo |-> <<>>, cpc |-> "none",
     c |-> <<>>, chain |-> <<>>, depth |-> 0]

Top == stack[Len(stack)]

SetTop(f) == [stack EXCEPT ![Len(stack)] = f]

\* The callback handing every error back to fs.WalkDir.
WalkErrAlways(dIsNil, err) == err

\* The walk callback's answer to an error fs.WalkDir hands it: the error
\* when there is no entry (the root is invalid), nil otherwise (the
\* directory could not be read and is skipped).
WalkErrFn(dIsNil, err) == IF dIsNil THEN err ELSE Nil

\* depth: the components between the root and the entry, plus fromDepth.
Depth(root, head, opt) ==
    NumFields(TrimPrefix(LinkPath(head), root)) + opt.fromDepth

\* The depth gate with the comparison off by one.
PruneBeyond(isDir, depth, opt) == isDir /\ depth > opt.MaxDepth

\* The depth gate: d.IsDir() && depth >= option.MaxDepth
Prune(isDir, depth, opt) == isDir /\ depth >= opt.MaxDepth

\* Whether a directory a symlink resolved to is walked.
NestedAllowed(depth, opt) == depth + 1 <= opt.MaxDepth

\* lopt with the nested walk's root counted as one level deeper.
NestedOptionDeeper(opt, depth) ==
    [opt EXCEPT !.fromDepth = depth + 1,
                !.fromFollow = opt.fromFollow + 1,
                !.FollowSymlinks = (opt.fromFollow + 1 < opt.MaxFollow
                                    \/ opt.MaxFollow < 0)]

\* lopt: the Option of the nested Match.
NestedOption(opt, depth) ==
    [opt EXCEPT !.fromDepth = depth,
                !.fromFollow = opt.fromFollow + 1,
                !.FollowSymlinks = (opt.fromFollow + 1 < opt.MaxFollow
                                    \/ opt.MaxFollow < 0)]

\* AbortWalk that also gives up what was found so far.
AbortWalkDropFound(f, err) ==
    [f EXCEPT !.serr = Append(f.serr, [dir |-> f.root, err |-> err]),
              !.found = <<>>,
              !.walking = FALSE, !.ri = f.ri + 1, !.todo = <<>>,
              !.cpc = "none", !.c = <<>>, !.chain = <<>>, !.depth = 0]

\* The walk of the frame's root ends with error err: it is recorded in
\* serr and the next root is up.
AbortWalk(f, err) ==
    [f EXCEPT !.serr = Append(f.serr, [dir |-> f.root, err |-> err]),
              !.walking = FALSE, !.ri = f.ri + 1, !.todo = <<>>,
              !.cpc = "none", !.c = <<>>, !.chain = <<>>, !.depth = 0]

\* Continue with a directory's entries put behind the entries still to visit.
ContinueBreadthFirst(f, walkD) ==
    LET c == Head(f.todo)
        dirPath == Join(f.root, c)
        g == [f EXCEPT !.cpc = "none", !.c = <<>>, !.chain = <<>>, !.depth = 0]
    IN IF walkD = "dir" /\ CanReadDir(dirPath)
       THEN [g EXCEPT !.todo = Tail(f.todo) \o
                [i \in 1..Len(Lstat(dirPath).ents) |->
                    Join(c, <<Lstat(dirPath).ents[i]>>)]]
       ELSE [g EXCEPT !.todo = Tail(f.todo)]

\* The callback returned nil for the entry at the head of todo: fs.WalkDir
\* goes on with the entries of a directory it was given, read in order,
\* calling the callback again when the directory cannot be read.
Continue(f, walkD) ==
    LET c == Head(f.todo)
        dirPath == Join(f.root, c)
        g == [f EXCEPT !.cpc = "none", !.c = <<>>, !.chain = <<>>, !.depth = 0]
    IN IF walkD # "dir" THEN [g EXCEPT !.todo = Tail(f.todo)]
       ELSE IF CanReadDir(dirPath)
            THEN [g EXCEPT !.todo =
                    [i \in 1..Len(Lstat(dirPath).ents) |->
                        Join(c, <<Lstat(dirPath).ents[i]>>)] \o Tail(f.todo)]
       ELSE IF WalkErrFn(FALSE, "permission denied") = Nil
            THEN [g EXCEPT !.todo = Tail(f.todo)]
       ELSE AbortWalk(f, "permission denied")

\* The matching step testing the base name of the entry the chain ends at.
FinishEntryByTarget(f, d, chain, walkD) ==
    IF d = "dir"
    THEN [frame |-> Continue(f, walkD), cache |-> re, compiled |-> 0, failed |-> FALSE]
    ELSE LET base0 == Base(chain[Len(chain)].name)
             base == IF f.opt.IgnoreCase THEN ToLower(base0) ELSE base0
             m == ExprMatch(f.opt.Expr, pattern, base, re)
         IN IF m.err # Nil
            THEN [frame |-> AbortWalk(f, m.err), cache |-> m.cache,
                  compiled |-> m.compiled, failed |-> TRUE]
            ELSE [frame |-> Continue(
                     IF m.matched
                     THEN [f EXCEPT !.found = Append(f.found, ChainString(chain))]
                     ELSE f, walkD),
                  cache |-> m.cache, compiled |-> m.compiled, failed |-> FALSE]

\* The end of the callback: an entry that is not a directory is matched by
\* the base name of the head of its chain; a match error ends the walk, a
\* match adds the rendered chain to found.
FinishEntry(f, d, chain, walkD) ==
    IF d = "dir"
    THEN [frame |-> Continue(f, walkD), cache |-> re, compiled |-> 0, failed |-> FALSE]
    ELSE LET base0 == Base(chain[1].name)
             base == IF f.opt.IgnoreCase THEN ToLower(base0) ELSE base0
             m == ExprMatch(f.opt.Expr, pattern, base, re)
         IN IF m.err # Nil
            THEN [frame |-> AbortWalk(f, m.err), cache |-> m.cache,
                  compiled |-> m.compiled, failed |-> TRUE]
            ELSE [frame |-> Continue(
                     IF m.matched
                     THEN [f EXCEPT !.found = Append(f.found, ChainString(chain))]
                     ELSE f, walkD),
                  cache |-> m.cache, compiled |-> m.compiled, failed |-> FALSE]

\* What a finished Match returns: found, and serr only when it holds an error.
MatchResult(f) ==
    [found |-> f.found, err |-> IF Len(f.serr) > 0 THEN f.serr ELSE <<>>]

\* The wrappers handing the pattern on as it was given.
WrapPatternAsGiven(fn, opt, p) == p

\* The pattern MatchFixed, MatchGlob and MatchRegexp hand to Match: with
\* IgnoreCase set it is lower-cased, or for MatchRegexp prefixed with "(?i)".
WrapPattern(fn, opt, p) ==
    IF ~opt.IgnoreCase THEN p
    ELSE IF fn = "Regexp" THEN FoldFlag \o p ELSE ToLower(p)

\* ------------------------------------------------------------ actions
\* An action binds each local of the code it models to its value with
\* \E x \in {e}.
\* MatchFixed, MatchGlob, MatchRegexp: set the strategy, fold the pattern
\* when IgnoreCase is set, and call Match.
Call ==
    /\ pc = "idle"
    /\ LET fn == input.call.fn
           p == input.call.pattern
           opt == [input.option EXCEPT !.Expr = fn]
       IN /\ pattern' = WrapPattern(fn, opt, p)
          /\ stack' = <<NewFrame(opt, input.sub)>>
    /\ pc' = "running"
    /\ UNCHANGED <<input, ret, visits, walked, failed, re, compiles, derefs, cvars>>

\* The loop over sub reaches a root: it is cleaned and fs.WalkDir starts on
\* it. A root that cannot be stat'ed goes to the callback with no entry.
BeginRoot ==
    /\ pc = "running"
    /\ LET f == Top
           root == Clean(f.sub[f.ri])
           g == [f EXCEPT !.root = root]
       IN /\ ~f.walking /\ f.cpc = "none" /\ f.ri <= Len(f.sub)
          /\ walked' = Append(walked, [lvl |-> Len(stack), root |-> root])
          /\ IF Exists(root)
             THEN stack' = SetTop([g EXCEPT !.walking = TRUE, !.todo = <<<<Dot>>>>])
             ELSE IF WalkErrFn(TRUE, ErrNotExist) # Nil
                  THEN stack' = SetTop(AbortWalk(g, WalkErrFn(TRUE, ErrNotExist)))
                  ELSE stack' = SetTop([g EXCEPT !.ri = f.ri + 1])
    /\ UNCHANGED <<input, pattern, ret, pc, visits, failed, re, compiles, derefs, cvars>>

\* The callback is called for the next entry of the walk: the depth gate,
\* then either the start of symlink resolution or the matching step.
Visit ==
    /\ pc = "running"
    /\ \E f \in {Top} :
       /\ f.walking /\ f.cpc = "none" /\ f.todo # <<>>
       /\ \E c \in {Head(f.todo)} :
          \E d \in {Lstat(Join(f.root, c)).kind} :
          \E head \in {NewLink(f.root, c, d)} :
          \E depth \in {Depth(f.root, head, f.opt)} :
          \E fin \in {FinishEntry(f, d, <<head>>, d)} :
             /\ visits' = Append(visits, [lvl |-> Len(stack), root |-> f.root,
                                          c |-> c, depth |-> depth,
                                          fromDepth |-> f.opt.fromDepth,
                                          fromFollow |-> f.opt.fromFollow,
                                          follow |-> f.opt.FollowSymlinks])
             /\ IF Prune(d = "dir", depth, f.opt)
                THEN /\ stack' = SetTop([f EXCEPT !.todo = Tail(f.todo)])
                     /\ UNCHANGED <<failed, re, compiles>>
                ELSE IF f.opt.FollowSymlinks /\ IsSymlink(head)
                THEN /\ stack' = SetTop([f EXCEPT !.cpc = "deref", !.c = c,
                                            !.chain = <<head>>, !.depth = depth])
                     /\ UNCHANGED <<failed, re, compiles>>
                ELSE /\ stack' = SetTop(fin.frame)
                     /\ failed' = (failed \/ fin.failed)
                     /\ re' = fin.cache
                     /\ compiles' = compiles + fin.compiled
    /\ UNCHANGED <<input, pattern, ret, pc, walked, derefs, cvars>>

\* One pass of the dereference loop. An error abandons the entry; a target
\* that is still a symlink goes round again; otherwise a directory within
\* MaxDepth is walked by a nested Match, and anything else is matched.
DerefStep ==
    /\ pc = "running"
    /\ \E f \in {Top} :
       /\ f.cpc = "deref"
       /\ \E ptr \in {f.chain[Len(f.chain)]} :
          \E dr \in {Deref(ptr)} :
          \E chain \in {ChainAdd(f.chain, dr.d)} :
          \E fin \in {FinishEntry(f, dr.d.ent, chain, "symlink")} :
             /\ derefs' = derefs \cup {[link |-> LinkPath(ptr), dest |-> dr.dest]}
             /\ IF dr.err # Nil
                THEN /\ stack' = SetTop(Continue(f, "symlink"))
                     /\ UNCHANGED <<failed, re, compiles>>
                ELSE IF IsSymlink(dr.d)
                THEN /\ stack' = SetTop([f EXCEPT !.chain = chain])
                     /\ UNCHANGED <<failed, re, compiles>>
                ELSE IF dr.d.ent = "dir" /\ NestedAllowed(f.depth, f.opt)
                THEN /\ stack' = Append(SetTop([f EXCEPT !.cpc = "nested",
                                                         !.chain = chain]),
                                        NewFrame(NestedOption(f.opt, f.depth),
                                                 <<LinkPath(dr.d)>>))
                     /\ UNCHANGED <<failed, re, compiles>>
                ELSE /\ stack' = SetTop(fin.frame)
                     /\ failed' = (failed \/ fin.failed)
                     /\ re' = fin.cache
                     /\ compiles' = compiles + fin.compiled
    /\ UNCHANGED <<input, pattern, ret, pc, visits, walked, cvars>>

\* fs.WalkDir has no entry left and returns nil: the next root is up.
EndWalk ==
    /\ pc = "running"
    /\ LET f == Top IN
       /\ f.walking /\ f.cpc = "none" /\ f.todo = <<>>
       /\ stack' = SetTop([f EXCEPT !.walking = FALSE, !.ri = f.ri + 1])
    /\ UNCHANGED <<input, pattern, ret, pc, visits, walked, failed, re, compiles, derefs, cvars>>

\* The test of the nested Match's error inverted.
KeepNestedOnError(merr) == merr # <<>>

\* Whether the nested Match's results are kept: merr == nil
KeepNested(merr) == merr = <<>>

\* The caller sharing its Option with the nested Match instead of handing
\* it a copy.
AfterNestedSharedOption(caller, f) ==
    [caller EXCEPT !.opt = f.opt,
                   !.found = IF KeepNested(MatchResult(f).err)
                             THEN caller.found \o MatchResult(f).found
                             ELSE caller.found]

\* The caller's locals once the nested Match f has returned: its results
\* are added to found unless it returned an error. lopt was a copy, so the
\* caller's option is as it was.
AfterNested(caller, f) ==
    IF KeepNested(MatchResult(f).err)
    THEN [caller EXCEPT !.found = caller.found \o MatchResult(f).found]
    ELSE caller

\* A nested Match returns: its results are added to the caller's found
\* unless it returned an error, and the caller's callback ends (the entry
\* now is the directory, which is not matched).
Return ==
    /\ pc = "running"
    /\ Len(stack) > 1
    /\ \E f \in {Top} :
       \E caller \in {stack[Len(stack) - 1]} :
       \E g \in {AfterNested(caller, f)} :
       \E fin \in {FinishEntry(g, "dir", g.chain, "symlink")} :
          /\ ~f.walking /\ f.ri > Len(f.sub)
          /\ stack' = [SubSeq(stack, 1, Len(stack) - 1)
                         EXCEPT ![Len(stack) - 1] = fin.frame]
    /\ UNCHANGED <<input, pattern, ret, pc, visits, walked, failed, re, compiles, derefs, cvars>>

\* The outermost Match returns.
Finish ==
    /\ pc = "running"
    /\ Len(stack) = 1
    /\ ~Top.walking /\ Top.ri > Len(Top.sub)
    /\ ret' = MatchResult(Top)
    /\ stack' = <<>>
    /\ pc' = "done"
    /\ UNCHANGED <<input, pattern, visits, walked, failed, re, compiles, derefs, cvars>>

Next == Call \/ BeginRoot \/ Visit \/ DerefStep \/ EndWalk \/ Return \/ Finish

Spec == Init /\ [][Next]_vars

\* ------------------------------------- calls on the wider set of inputs
\* Patterns with upper-case letters.
p_ABC == n_ABC
p_AqC == <<"A", "?", "C">>
p_BC == <<"B", "C">>

CaseCalls ==
    { [fn |-> "Fixed", pattern |-> p_ABC],
      [fn |-> "Glob", pattern |-> p_AqC],
      [fn |-> "Regexp", pattern |-> p_BC] }

\* The roots of these calls: /k, /m, /c and /w, and the relative roots "."
\* and "sub", which the process opens from Cwd.
WideRoots ==
    { <<Slash, n_k>>, <<Slash, n_m>>, <<Slash, n_c>>, <<Slash, n_w>>,
      <<Dot>>, <<n_sub>> }

\* Option as a caller sets it, IgnoreCase either way.
WideOptions ==
    { o \in [FollowSymlinks : BOOLEAN, MaxFollow : (-1)..MaxFollowBound,
             MaxDepth : 0..MaxDepthBound, Expr : {"Fixed"}, IgnoreCase : BOOLEAN,
             WorkingDir : {Cwd}, fromDepth : {0}, fromFollow : {0}] :
        o.FollowSymlinks \/ o.MaxFollow = 0 }

\* One call of a wrapper on one root.
InitWide ==
    /\ input \in [call : Calls \cup CaseCalls, option : WideOptions,
                   sub : {<<r>> : r \in WideRoots}]
    /\ pattern = <<>>
    /\ stack = <<>>
    /\ ret = NoResult
    /\ pc = "idle"
    /\ visits = <<>>
    /\ walked = <<>>
    /\ failed = FALSE
    /\ derefs = {}
    /\ re = <<>>
    /\ compiles = 0
    /\ lock = FreeLock
    /\ gor = [g \in Goroutines |-> IdleGoroutine]
    /\ returned = {}

SpecWide == InitWide /\ [][Next]_vars

\* Match is sequential code: a step that can be taken is taken.
SpecWideFair == SpecWide /\ WF_vars(Next)

\* ------------------------------------------------- reading the results
MaxDepthIn == input.option.MaxDepth

FollowIn == input.option.FollowSymlinks

MaxFollowIn == input.option.MaxFollow

Roots == [i \in 1..Len(input.sub) |-> Clean(input.sub[i])]

\* The pattern of the call is malformed for its strategy.
MalformedCall ==
    \/ input.call.fn = "Glob" /\ Malformed(input.call.pattern, 1)
    \/ input.call.fn = "Regexp" /\ Malformed(ReBody(input.call.pattern), 1)

\* p is an entry below root (not root itself) in the tree of real directories.
Below(root, p) == p \in DOMAIN FS /\ IsPrefix(root, p) /\ p # root

\* The number of path components of p below root.
PlainDepth(root, p) == Len(p) - Len(root)

\* Every directory from root down to p's parent can be read.
ReadableDown(root, p) ==
    \A n \in Len(root)..(Len(p) - 1) : CanReadDir(SubSeq(p, 1, n))

\* The callback of the outermost Match was called for p in the walk of root.
Visited(root, p) ==
    \E i \in 1..Len(visits) :
        visits[i].lvl = 1 /\ visits[i].root = root /\ Join(root, visits[i].c) = p

\* The entry the callback was called for last. visits only grows, so what
\* holds of the last visit in every state holds of every visit.
LastVisit == visits[Len(visits)]

\* A result that is a plain path.
Plain(p) == <<[indent |-> 0, branch |-> "", path |-> p]>>

\* The base name matches the pattern of the call.
NameMatches(name) == ExprMatch(input.call.fn, pattern, name, re).matched

Flatten(ss) ==
    LET RECURSIVE F(_)
        F(i) == IF i > Len(ss) THEN <<>> ELSE ss[i] \o F(i + 1)
    IN F(1)

\* The entries below root that are not directories, lie at most k components
\* below root and whose base name matches, in depth-first order, as paths
\* (a directory that cannot be read contributes nothing).
RECURSIVE ExpectedIn(_, _, _)
ExpectedIn(root, dir, k) ==
    Flatten([i \in 1..Len(FS[dir].ents) |->
        LET p == Append(dir, FS[dir].ents[i])
        IN IF FS[p].kind = "dir"
           THEN (IF PlainDepth(root, p) < k /\ FS[p].readable
                 THEN ExpectedIn(root, p, k) ELSE <<>>)
           ELSE (IF PlainDepth(root, p) <= k /\ NameMatches(FS[dir].ents[i])
                 THEN <<Plain(p)>> ELSE <<>>)])

Expected(root, k) ==
    IF root \in DOMAIN FS /\ FS[root].readable /\ k >= 1 THEN ExpectedIn(root, root, k) ELSE <<>>

\* Every directory the walk of the roots may enter is readable.
AllReadable ==
    \A i \in 1..Len(Roots) : \A p \in DOMAIN FS :
        (IsPrefix(Roots[i], p) /\ FS[p].kind = "dir") => FS[p].readable

\* ---------------------------------------------------------------- C1
\* C1 as claimed: when Match has returned without a match error, every
\* non-directory entry directly inside a readable directory whose depth from
\* its root equals MaxDepth (the root itself when MaxDepth = 0) was visited.
C1_EntriesAtMaxDepthVisited ==
    (pc = "done" /\ ~failed) =>
        \A i \in 1..Len(Roots) : \A p \in DOMAIN FS :
            (/\ Below(Roots[i], p)
             /\ FS[p].kind # "dir"
             /\ PlainDepth(Roots[i], p) - 1 = MaxDepthIn
             /\ ReadableDown(Roots[i], p)) => Visited(Roots[i], p)

\* C1 amended: a directory whose depth from its root equals MaxDepth is
\* pruned whole, its own entries included. The outermost Match visits no
\* entry deeper than MaxDepth, and once it has returned without a match
\* error it has visited every entry at depth <= MaxDepth that lies in
\* readable directories; with MaxDepth = 0 it only sees the roots and
\* reports nothing.
C1_DirAtMaxDepthPrunedWhole ==
    /\ (visits # <<>> /\ LastVisit.lvl = 1) =>
          PlainDepth(LastVisit.root, Join(LastVisit.root, LastVisit.c)) <= MaxDepthIn
    /\ (pc = "done" /\ ~failed) =>
          \A i \in 1..Len(Roots) : \A p \in DOMAIN FS :
              (Below(Roots[i], p) /\ ReadableDown(Roots[i], p)) =>
                  (Visited(Roots[i], p) <=> PlainDepth(Roots[i], p) <= MaxDepthIn)
    /\ (pc = "done" /\ MaxDepthIn = 0) => ret.found = <<>>

\* A walk of /r with MaxDepth = 1 has returned: a.txt, directly in the root,
\* was visited, and c.txt, directly inside sub (depth 1), was not.
C1_Witness ==
    /\ pc = "done" /\ ~failed /\ MaxDepthIn = 1
    /\ Roots = <<<<Slash, n_r>>>>
    /\ Visited(<<Slash, n_r>>, <<Slash, n_r, n_a_txt>>)
    /\ Visited(<<Slash, n_r>>, <<Slash, n_r, n_sub>>)
    /\ ~Visited(<<Slash, n_r>>, <<Slash, n_r, n_sub, n_c_txt>>)

\* ---------------------------------------------------------------- C2
\* C2: with FollowSymlinks off, every directory readable, a well-formed
\* pattern and MaxDepth = k >= 1, Match returns exactly the non-directory
\* entries at most k components below each root whose base name matches, in
\* depth-first order, root after root.
C2_DepthBoundedMatches ==
    (pc = "done" /\ ~FollowIn /\ AllReadable /\ ~MalformedCall /\ MaxDepthIn >= 1) =>
        ret.found = Flatten([i \in 1..Len(Roots) |-> Expected(Roots[i], MaxDepthIn)])

\* The scenario of the specification: "*.txt" on /r with MaxDepth = 2
\* returns a.txt, then sub/c.txt, then the root's later entry z.txt.
C2_Witness ==
    /\ pc = "done" /\ ~FollowIn /\ MaxDepthIn = 2
    /\ input.call = [fn |-> "Glob", pattern |-> p_star_txt]
    /\ Roots = <<<<Slash, n_r>>>>
    /\ ret.found = <<Plain(<<Slash, n_r, n_a_txt>>),
                     Plain(<<Slash, n_r, n_sub, n_c_txt>>),
                     Plain(<<Slash, n_r, n_z_txt>>)>>

\* ---------------------------------------------------------------- C3
\* C3 as claimed: with FollowSymlinks set and MaxFollow = N >= 0, no chain
\* holds more than N resolved indirections and no nested walk is started
\* past the N-th (with N = 0 no symlink is dereferenced and none followed).
C3_FollowBudgetRespected ==
    (FollowIn /\ MaxFollowIn >= 0) =>
        \A i \in 1..Len(stack) :
            /\ Len(stack[i].chain) - 1 <= MaxFollowIn
            /\ stack[i].opt.fromFollow <= MaxFollowIn

\* ---------------------------------------------------------------- C4
\* C4 as claimed: a call with a malformed pattern and at least one root
\* returns a non-nil error and no result, whatever the roots hold.
C4_MalformedPatternFails ==
    (pc = "done" /\ MalformedCall /\ Len(input.sub) >= 1) =>
        (ret.err # <<>> /\ ret.found = <<>>)

\* ---------------------------------------------------------------- C5
\* C5 as claimed: once the pattern matcher has returned an error, the
\* callback is called for no further entry and fs.WalkDir is started on no
\* further root.
C5_MatchErrorStopsAll ==
    [][failed => (visits' = visits /\ walked' = walked)]_vars

\* ---------------------------------------------------------------- C6
InSeq(x, ss) == \E i \in 1..Len(ss) : ss[i] = x

\* A result that is the plain path of a regular file below one of the roots.
PlainFileUnderRoots(x) ==
    /\ Len(x) = 1 /\ x[1].branch = ""
    /\ x[1].path \in DOMAIN FS /\ FS[x[1].path].kind = "file"
    /\ \E i \in 1..Len(Roots) : Below(Roots[i], x[1].path)

IsFileResult(x) == FS[x[1].path].kind = "file"

MissingRoot(r) == r \notin DOMAIN FS

\* The aggregate error that names every nonexistent root once, in order.
MissingRootErrors ==
    LET miss == SelectSeq(Roots, MissingRoot)
    IN [i \in 1..Len(miss) |-> [dir |-> miss[i], err |-> ErrNotExist]]

\* C6: a call with a well-formed pattern returns an aggregate error with
\* exactly one entry per nonexistent root, naming it, in the order of the
\* roots, and nil when every root exists; the matching regular files of the
\* other roots are all returned, in depth-first order, root after root.
C6_MissingRootsReportedOthersKept ==
    (pc = "done" /\ ~MalformedCall) =>
        /\ ret.err = MissingRootErrors
        /\ (ret.err = <<>> <=> \A i \in 1..Len(Roots) : ~MissingRoot(Roots[i]))
        /\ SelectSeq(ret.found, PlainFileUnderRoots) =
              SelectSeq(Flatten([i \in 1..Len(Roots) |-> Expected(Roots[i], MaxDepthIn)]),
                        IsFileResult)

\* /r walked before the nonexistent /nx: the matches of /r are returned with
\* an error naming /nx alone.
C6_Witness ==
    /\ pc = "done" /\ ~MalformedCall
    /\ Roots = <<<<Slash, n_r>>, <<Slash, n_nx>>>>
    /\ ret.err = <<[dir |-> <<Slash, n_nx>>, err |-> ErrNotExist]>>
    /\ InSeq(Plain(<<Slash, n_r, n_a_txt>>), ret.found)

\* ---------------------------------------------------------------- C7
\* The walk of root reaches a directory (the root or one below it) that
\* exists and cannot be read.
HitsUnreadable(root) ==
    \E p \in DOMAIN FS :
        /\ IsPrefix(root, p) /\ FS[p].kind = "dir" /\ ~FS[p].readable
        /\ PlainDepth(root, p) < MaxDepthIn
        /\ ReadableDown(root, p)

C8_Scenario ==
    /\ pc = "done" /\ ~MalformedCall
    /\ FollowIn /\ MaxFollowIn # 0 /\ MaxDepthIn >= 2
    /\ InSeq(<<Slash, n_r>>, Roots)
    /\ NameMatches(n_d_txt)

\* C8 as claimed: d.txt, found in the directory the symlink link leads to,
\* is returned as a rendered chain that starts at /r/link.
C8_NestedMatchIsChain ==
    C8_Scenario =>
        \E i \in 1..Len(ret.found) :
            /\ Len(ret.found[i]) >= 2
            /\ ret.found[i][1].path = <<Slash, n_r, n_link>>
            /\ ret.found[i][Len(ret.found[i])].path = <<Slash, n_t, n_d_txt>>

\* Every line of a rendered chain but the last is a symlink, and the last
\* is a file that is not a symlink.
ChainOfSymlinkHops(x) ==
    /\ \A i \in 1..(Len(x) - 1) :
          x[i].path \in DOMAIN FS /\ FS[x[i].path].kind = "symlink"
    /\ x[Len(x)].path \in DOMAIN FS /\ FS[x[Len(x)].path].kind = "file"

\* C8 amended: a matching file found inside a directory reached through a
\* symlink is returned as the plain path of the file under the resolved
\* directory (/t/d.txt). A rendered chain is returned only for a symlink
\* that resolves to a file, and lists that symlink and its successive
\* targets, never an entry of a directory the walk entered through a link.
C8_NestedMatchIsPlainPath ==
    /\ C8_Scenario =>
          /\ InSeq(Plain(<<Slash, n_t, n_d_txt>>), ret.found)
          /\ \A i \in 1..Len(ret.found) :
                ret.found[i][1].path # <<Slash, n_r, n_link>>
    /\ pc = "done" =>
          \A i \in 1..Len(ret.found) :
              Len(ret.found[i]) >= 2 => ChainOfSymlinkHops(ret.found[i])

\* The scenario has run with "*.txt": /t/d.txt is returned as a plain path,
\* beside the chain of the file symlink z.txt -> b.log.
C8_Witness ==
    /\ C8_Scenario
    /\ input.call = [fn |-> "Glob", pattern |-> p_star_txt]
    /\ InSeq(Plain(<<Slash, n_t, n_d_txt>>), ret.found)
    /\ \E i \in 1..Len(ret.found) :
          /\ Len(ret.found[i]) = 2
          /\ ret.found[i][1].path = <<Slash, n_r, n_z_txt>>

\* --------------------------------------------------------------- C11
\* The root of a call on one root, as given and as the process opens it.
Root1 == Clean(input.sub[1])

AbsRoot1 == Abs(input.sub[1])

\* The path Match reports for the entry p of the file system below the root.
ReportedAs(p) == Join(Root1, SubSeq(p, Len(AbsRoot1) + 1, Len(p)))

\* Whether name is what the call asks for: pattern p of the strategy fn
\* against name, letters compared without regard to case when fold is set.
Wanted(fn, p, name, fold) ==
    LET pp == IF fold THEN ToLower(p) ELSE p
        nn == IF fold THEN ToLower(name) ELSE name
    IN CASE fn = "Fixed" -> pp = nn
         [] fn = "Glob" -> GlobAt(pp, 1, nn, 1)
         [] fn = "Regexp" -> \E j \in 1..(Len(nn) + 1) : ReAt(pp, 1, nn, j, FALSE)

\* C11: a wrapper called with a well-formed pattern reports a regular file
\* the walk of the root reaches exactly when the pattern matches its base
\* name, both case-folded when IgnoreCase is set and both as they are when
\* it is not: Fixed "ABC" reports the file abc with IgnoreCase and does not
\* without it.
C11_IgnoreCaseFoldsBoth ==
    (pc = "done" /\ ~MalformedCall) =>
        /\ \A q \in DOMAIN FS :
              (/\ Below(AbsRoot1, q) /\ FS[q].kind = "file"
               /\ PlainDepth(AbsRoot1, q) <= MaxDepthIn
               /\ ReadableDown(AbsRoot1, q)) =>
                  (InSeq(Plain(ReportedAs(q)), ret.found) <=>
                      Wanted(input.call.fn, input.call.pattern, Base(q),
                             input.option.IgnoreCase))
        /\ (input.call = [fn |-> "Fixed", pattern |-> p_ABC]
               /\ Root1 = <<Slash, n_k>> /\ MaxDepthIn >= 1) =>
              (InSeq(Plain(<<Slash, n_k, n_abc>>), ret.found)
                  <=> input.option.IgnoreCase)

\* MatchFixed with "ABC" and IgnoreCase set has walked /k and reports both
\* abc and ABC.
C11_Witness ==
    /\ pc = "done" /\ input.option.IgnoreCase /\ MaxDepthIn = 1
    /\ input.call = [fn |-> "Fixed", pattern |-> p_ABC]
    /\ Root1 = <<Slash, n_k>>
    /\ ret.found = <<Plain(<<Slash, n_k, n_ABC>>), Plain(<<Slash, n_k, n_abc>>)>>

\* --------------------------------------------------------------- C12
\* C12 as claimed: a matching regular file the walk of the root reaches is
\* reported under the root as given when the root is absolute, and under
\* WorkingDir joined with the root when the root is relative.
C12_RelativeRootReRooted ==
    (pc = "done" /\ ~MalformedCall) =>
        \A q \in DOMAIN FS :
            (/\ Below(AbsRoot1, q) /\ FS[q].kind = "file"
             /\ PlainDepth(AbsRoot1, q) <= MaxDepthIn
             /\ ReadableDown(AbsRoot1, q)
             /\ Wanted(input.call.fn, input.call.pattern, Base(q),
                       input.option.IgnoreCase)) =>
                InSeq(Plain(IF IsAbs(Root1) THEN ReportedAs(q)
                            ELSE Join(input.option.WorkingDir, ReportedAs(q))),
                      ret.found)

\* --------------------------------------------------------------- C13
\* The link a chain that starts at l ends at, following (*Link).Deref at
\* most n times; a link without a path when the resolution fails.
RECURSIVE ResolveFrom(_, _)
ResolveFrom(l, n) ==
    IF n = 0 THEN NewLink(<<>>, <<>>, "")
    ELSE LET dr == Deref(l)
         IN IF dr.err # Nil THEN NewLink(<<>>, <<>>, "")
            ELSE IF IsSymlink(dr.d) THEN ResolveFrom(dr.d, n - 1)
            ELSE dr.d

\* The head of the chain of the entry q below the root, and where it ends.
HeadOf(q) == NewLink(Root1, SubSeq(q, Len(AbsRoot1) + 1, Len(q)), FS[q].kind)

Resolved(q) == ResolveFrom(HeadOf(q), MaxChain)

\* q is a symlink the outermost walk visits and resolves to a regular file.
FileSymlink(q) ==
    /\ Below(AbsRoot1, q) /\ FS[q].kind = "symlink"
    /\ PlainDepth(AbsRoot1, q) <= MaxDepthIn
    /\ ReadableDown(AbsRoot1, q)
    /\ Resolved(q).ent = "file"

\* A chain from the symlink q to the file it resolves to is among the results.
ChainReported(q) ==
    \E i \in 1..Len(ret.found) :
        /\ Len(ret.found[i]) >= 2
        /\ ret.found[i][1].path = ReportedAs(q)
        /\ ret.found[i][Len(ret.found[i])].path = LinkPath(Resolved(q))

Components(c) == IF c = <<Dot>> THEN 0 ELSE Len(c)

\* C14: a nested walk is running only for a symlink whose depth d, the
\* number of components from its root plus the walk's offset, satisfies
\* d + 1 <= MaxDepth, and its offset is d whatever the length of the chain
\* that led to the directory; an entry a nested walk visits has the depth
\* of its offset plus its components below the resolved directory, so a
\* direct entry has depth d + 1.
C14_NestedEntriesOneDeeper ==
    /\ \A i \in 2..Len(stack) :
          LET caller == stack[i - 1]
          IN /\ caller.cpc = "nested"
             /\ caller.chain[Len(caller.chain)].ent = "dir"
             /\ caller.depth = Components(caller.c) + caller.opt.fromDepth
             /\ caller.depth + 1 <= MaxDepthIn
             /\ stack[i].opt.fromDepth = caller.depth
             /\ stack[i].opt.MaxDepth = MaxDepthIn
    /\ (visits # <<>> /\ LastVisit.lvl > 1 /\ Len(stack) = LastVisit.lvl) =>
          /\ LastVisit.fromDepth = stack[LastVisit.lvl].opt.fromDepth
          /\ LastVisit.depth = LastVisit.fromDepth + Components(LastVisit.c)
          /\ Len(LastVisit.c) = 1 /\ LastVisit.c # <<Dot>> =>
                LastVisit.depth = stack[LastVisit.lvl - 1].depth + 1

\* The walk of "." follows sub/hop -> /r/link -> /t, two indirections from
\* depth 2, and visits d.txt, directly inside /t, at depth 3.
C14_Witness ==
    /\ Len(stack) = 2 /\ Root1 = <<Dot>>
    /\ stack[1].c = <<n_sub, n_hop>> /\ stack[1].depth = 2
    /\ Len(stack[1].chain) = 3
    /\ visits # <<>> /\ LastVisit.lvl = 2
    /\ LastVisit.c = <<n_d_txt>> /\ LastVisit.depth = 3

\* --------------------------------------------------------------- C15
\* C15: no step changes the Option of a Match invocation that stays active,
\* the return of a nested Match included, and every entry of the outermost
\* walk, before and after a nested walk, is visited with the counters at
\* zero and FollowSymlinks as the caller set it.
C15_CallerOptionUntouched ==
    [][/\ \A i \in 1..Len(stack) :
             i <= Len(stack') => stack'[i].opt = stack[i].opt
       /\ (visits' # <<>> /\ visits'[Len(visits')].lvl = 1) =>
             /\ visits'[Len(visits')].fromDepth = 0
             /\ visits'[Len(visits')].fromFollow = 0
             /\ visits'[Len(visits')].follow = FollowIn]_vars

\* With MaxFollow = 1 the nested walk of /r/link runs with FollowSymlinks
\* off; it has returned, and the outermost walk of "." has gone on to visit
\* sub with FollowSymlinks still on.
C15_Witness ==
    /\ Root1 = <<Dot>> /\ FollowIn /\ MaxFollowIn = 1
    /\ \E i, j \in 1..Len(visits) :
          /\ i < j
          /\ visits[i].lvl = 2 /\ ~visits[i].follow /\ visits[i].fromFollow = 1
          /\ visits[j].lvl = 1 /\ visits[j].c = <<n_sub>>
          /\ visits[j].follow /\ visits[j].fromFollow = 0
    /\ Len(stack) = 1

\* --------------------------------------------------------------- C16
\* C16 as claimed: a call with FollowSymlinks set and MaxFollow >= 0
\* eventually returns, whatever the root holds.
C16_MatchTerminates ==
    (pc = "idle" /\ FollowIn /\ MaxFollowIn >= 0) ~> (pc = "done")

\* --------------------------------------------------------------- C17
\* Where the symlink at path l leads: its target, taken from the directory
\* that holds the symlink when it is relative.
TargetFromLinkDir(l) ==
    IF IsAbs(Lstat(l).target) THEN Lstat(l).target
    ELSE Join(Dir(l), Lstat(l).target)

\* C17 as claimed: every (*Link).Deref looks up the link's target resolved
\* against the directory that contains the link, the first link of a chain
\* included, wherever below the walk root it was visited.
C17_RelativeAgainstLinkDir ==
    \A r \in derefs : r.dest = TargetFromLinkDir(r.link)

\* ---------------------------------------- the cache under concurrent use
\* Goroutines call (Expr).Match with the Regexp strategy, each call one
\* (*Cache).Get, taken one statement at a time.
CachePatterns == {p_txt, p_bad}

InitCache ==
    /\ input = [call |-> [fn |-> "Regexp", pattern |-> <<>>],
                option |-> [FollowSymlinks |-> FALSE, MaxFollow |-> 0, MaxDepth |-> 0,
                            Expr |-> "Regexp", IgnoreCase |-> FALSE, WorkingDir |-> Cwd,
                            fromDepth |-> 0, fromFollow |-> 0],
                sub |-> <<>>]
    /\ pattern = <<>>
    /\ stack = <<>>
    /\ ret = NoResult
    /\ pc = "cache"
    /\ visits = <<>>
    /\ walked = <<>>
    /\ failed = FALSE
    /\ derefs = {}
    /\ re = <<>>
    /\ compiles = 0
    /\ lock = FreeLock
    /\ gor = [g \in Goroutines |-> IdleGoroutine]
    /\ returned = {}

\* sync.RWMutex: a reader enters when no writer holds the lock. (The Go
\* mutex also holds new readers back while a writer waits; letting them in
\* only adds interleavings.)
CanRLock(l) == l.writer = 0

\* A writer that does not wait for the readers to leave.
CanLockDespiteReaders(l) == l.writer = 0

\* sync.RWMutex: a writer enters when nobody holds the lock.
CanLock(l) == l.writer = 0 /\ l.readers = {}

\* A store that leaves the map as it was.
StoreNothing(cache, p, r) == cache

\* c.re[pattern] = r
Store(cache, p, r) == (p :> r) @@ [q \in (DOMAIN cache) \ {p} |-> cache[q]]

\* (Expr).Match, case Regexp: matchCache.Get(pattern) is called.
GetCall(g) ==
    /\ pc = "cache"
    /\ gor[g].pc = "idle" /\ gor[g].gets < MaxGets
    /\ \E p \in CachePatterns :
          gor' = [gor EXCEPT ![g] =
                    [pc |-> "rlock", pattern |-> p, r |-> <<>>, ok |-> FALSE,
                     err |-> Nil, gets |-> gor[g].gets + 1,
                     late |-> (p \in returned), compiled |-> FALSE]]
    /\ UNCHANGED <<wvars, re, compiles, lock, returned>>

\* c.RLock()
GetRLock(g) ==
    /\ gor[g].pc = "rlock"
    /\ CanRLock(lock)
    /\ lock' = [lock EXCEPT !.readers = lock.readers \cup {g}]
    /\ gor' = [gor EXCEPT ![g].pc = "read"]
    /\ UNCHANGED <<wvars, re, compiles, returned>>

\* r, ok := c.re[pattern]
GetRead(g) ==
    /\ gor[g].pc = "read"
    /\ gor' = [gor EXCEPT ![g].pc = "runlock",
                          ![g].ok = (gor[g].pattern \in DOMAIN re),
                          ![g].r = IF gor[g].pattern \in DOMAIN re
                                   THEN re[gor[g].pattern] ELSE <<>>]
    /\ UNCHANGED <<wvars, re, compiles, lock, returned>>

\* c.RUnlock(); if !ok { ... }
GetRUnlock(g) ==
    /\ gor[g].pc = "runlock"
    /\ lock' = [lock EXCEPT !.readers = lock.readers \ {g}]
    /\ gor' = [gor EXCEPT ![g].pc = IF gor[g].ok THEN "return" ELSE "compile"]
    /\ UNCHANGED <<wvars, re, compiles, returned>>

\* r, err = regexp.Compile(pattern); on an error Get returns it.
GetCompile(g) ==
    /\ gor[g].pc = "compile"
    /\ LET c == RegexpCompile(gor[g].pattern)
       IN gor' = [gor EXCEPT ![g].pc = IF c.err # Nil THEN "return" ELSE "lock",
                             ![g].r = c.r, ![g].err = c.err,
                             ![g].compiled = TRUE]
    /\ compiles' = compiles + 1
    /\ UNCHANGED <<wvars, re, lock, returned>>

\* c.Lock()
GetLock(g) ==
    /\ gor[g].pc = "lock"
    /\ CanLock(lock)
    /\ lock' = [lock EXCEPT !.writer = g]
    /\ gor' = [gor EXCEPT ![g].pc = "write"]
    /\ UNCHANGED <<wvars, re, compiles, returned>>

\* c.re[pattern] = r
GetWrite(g) ==
    /\ gor[g].pc = "write"
    /\ re' = Store(re, gor[g].pattern, gor[g].r)
    /\ gor' = [gor EXCEPT ![g].pc = "unlock"]
    /\ UNCHANGED <<wvars, compiles, lock, returned>>

\* c.Unlock()
GetUnlock(g) ==
    /\ gor[g].pc = "unlock"
    /\ lock' = [lock EXCEPT !.writer = 0]
    /\ gor' = [gor EXCEPT ![g].pc = "return"]
    /\ UNCHANGED <<wvars, re, compiles, returned>>

\* Get returns (r, err) to (Expr).Match, which returns in turn.
GetReturn(g) ==
    /\ gor[g].pc = "return"
    /\ returned' = returned \cup {gor[g].pattern}
    /\ gor' = [gor EXCEPT ![g].pc = "idle"]
    /\ UNCHANGED <<wvars, re, compiles, lock>>

NextCache ==
    \E g \in Goroutines :
        \/ GetCall(g) \/ GetRLock(g) \/ GetRead(g) \/ GetRUnlock(g) \/ GetCompile(g)
        \/ GetLock(g) \/ GetWrite(g) \/ GetUnlock(g) \/ GetReturn(g)

SpecCache == InitCache /\ [][NextCache]_vars

\* ---------------------------------------------------------------- C9
\* C9 as claimed: a call for pattern p that starts after a call for p has
\* returned never invokes the compiler, whether p is well-formed or not.
C9_NeverCompiledAgain ==
    \A g \in Goroutines : gor[g].late => ~gor[g].compiled

\* C9 amended: a well-formed pattern is compiled at most once after a call
\* for it has returned (a later call finds it in the cache); a malformed
\* pattern is never stored, so every call for it invokes the compiler.
C9_WellFormedNeverCompiledAgain ==
    \A g \in Goroutines :
        /\ (gor[g].late /\ ~Malformed(ReBody(gor[g].pattern), 1)) => ~gor[g].compiled
        /\ (gor[g].pc = "return" /\ Malformed(ReBody(gor[g].pattern), 1)) =>
              (gor[g].compiled /\ gor[g].err # Nil /\ gor[g].pattern \notin DOMAIN re)

\* A second call for the well-formed "txt", begun after the first returned,
\* is about to return what it read from the cache without compiling, and a
\* second call for the malformed "[" has compiled it again.
C9_Witness ==
    \E g, h \in Goroutines :
        /\ gor[g].pc = "return" /\ gor[g].late /\ gor[g].pattern = p_txt
        /\ gor[g].ok /\ ~gor[g].compiled
        /\ gor[h].pc = "return" /\ gor[h].late /\ gor[h].pattern = p_bad
        /\ gor[h].compiled

\* --------------------------------------------------------------- C10
\* C10: no goroutine is at its write of the map while another is at a read
\* or a write of it; a goroutine at the write holds the lock exclusively and
\* one at the read holds it shared; and a Get that returns without error
\* returns the compiled form of the pattern it was called with.
C10_CacheSafe ==
    /\ \A g, h \in Goroutines :
          (g # h /\ gor[g].pc = "write") => gor[h].pc \notin {"read", "write"}
    /\ \A g \in Goroutines :
          /\ gor[g].pc = "write" => (lock.writer = g /\ lock.readers = {})
          /\ gor[g].pc = "read" => (g \in lock.readers /\ lock.writer = 0)
          /\ (gor[g].pc = "return" /\ gor[g].err = Nil) =>
                gor[g].r = RegexpCompile(gor[g].pattern).r
    /\ \A p \in DOMAIN re : re[p] = RegexpCompile(p).r

\* Two goroutines raced to compile the same uncached pattern: one has
\* stored it and is about to return, the other is at its write of the map.
C10_Witness ==
    \E g, h \in Goroutines :
        /\ g # h
        /\ gor[g].pattern = p_txt /\ gor[h].pattern = p_txt
        /\ gor[g].compiled /\ gor[h].compiled
        /\ gor[g].pc = "return" /\ gor[h].pc = "write"
        /\ p_txt \in DOMAIN re

====
